---- MODULE Spec2Model ----
(***************************************************************************)
(* FaceAuth Security Service: the lockout state machine of security.py,    *)
(* its store in db.py (auth_state, users, events), and the /verify         *)
(* pipeline of app.py, as a state machine.                                 *)
(*                                                                         *)
(* Every handler runs as a process whose steps are its accesses to shared  *)
(* state: one SQLite statement (db.py opens a connection, runs one         *)
(* statement and commits) or one read of the clock (time.time()).  The     *)
(* computation between two accesses is local and belongs to the step that  *)
(* follows it.                                                             *)
(*                                                                         *)
(* Units: distances and motion scores are in hundredths (0.35 is 35).      *)
(* Time is in whole seconds, as int(time.time()).                          *)
(***************************************************************************)
EXTENDS Integers, Sequences, FiniteSets, TLC

VARIABLES
    users,       \* table users: username -> [embedding, role]
    auth_state,  \* table auth_state: key -> [fails, locked_until]
    events,      \* table events, in insertion order
    now,         \* int(time.time())
    pc,          \* pc[p]: where process p stands in its call
    loc,         \* loc[p]: the local variables of process p's call
    fresh        \* history: fresh[k] = register_fail calls begun on key k,
                 \* or -1 once a register_success was performed on k

vars == <<users, auth_state, events, now, pc, loc, fresh>>

----------------------------------------------------------------------------
(* Bounds of the model *)

MaxTime == 60
MaxStoredFails == 6
MaxEvents == 2
MaxEventsDeep == 7
MaxEventsRace == 1
MaxUsers == 26
MaxSearchOps == 1
MaxEventsAdmin == 4

(* Program constants *)

LOCKOUT_SECONDS == 60
MAX_FAILS == 5
MATCH_THRESHOLD == 35
MOTION_THRESHOLD == 3
ACCESS_TOKEN_TTL_SECONDS == 3600

\* The workers that serve calls; w1 alone serves the sequential runs.
Procs == {"w1", "w2"}
Usernames == {"alice", "bob"}
IPs == {"10.0.0.1"}

\* The instants at which the clock is observed: every half lockout window.
Times == {t \in 0..MaxTime : t % (LOCKOUT_SECONDS \div 2) = 0}

None == -1

----------------------------------------------------------------------------
(* security.py and db.py: the lockout store *)

_key(username, ip) == <<IF username = "" THEN "unknown" ELSE username, ip>>

\* A user may be called unknown, and a request may give no username.
AliasNames == {"unknown", ""}

Keys == {_key(u, ip) : u \in Usernames \cup AliasNames, ip \in IPs}

DefaultState == [fails |-> 0, locked_until |-> 0]

get_state(key, default) ==
    IF key \in DOMAIN auth_state THEN auth_state[key] ELSE default

set_state(key, value) ==
    [k \in DOMAIN auth_state \cup {key} |->
        IF k = key THEN value ELSE auth_state[k]]

\* check_lockout with the window closed one second late.
check_lockout_inclusive(state, t) ==
    IF state.locked_until >= t
    THEN [locked |-> TRUE, fails |-> state.fails,
          remaining |-> state.locked_until - t]
    ELSE [locked |-> FALSE, fails |-> state.fails, remaining |-> 0]

\* check_lockout after its get_state: the answer for the state read and the
\* clock value t.
check_lockout(state, t) ==
    IF state.locked_until > t
    THEN [locked |-> TRUE, fails |-> state.fails,
          remaining |-> state.locked_until - t]
    ELSE [locked |-> FALSE, fails |-> state.fails, remaining |-> 0]

\* register_fail starting the count again when it locks.
register_fail_recount(state, t) ==
    LET fails == state.fails + 1 IN
    IF fails >= MAX_FAILS
    THEN [fails |-> 0, locked |-> TRUE, locked_until |-> t + LOCKOUT_SECONDS]
    ELSE [fails |-> fails, locked |-> FALSE, locked_until |-> state.locked_until]

\* register_fail locking on the fifth failure and on no later one.
register_fail_once(state, t) ==
    LET fails == state.fails + 1 IN
    IF fails = MAX_FAILS
    THEN [fails |-> fails, locked |-> TRUE, locked_until |-> t + LOCKOUT_SECONDS]
    ELSE [fails |-> fails, locked |-> FALSE, locked_until |-> state.locked_until]

\* register_fail locking with a window of no length.
register_fail_no_window(state, t) ==
    LET fails == state.fails + 1 IN
    IF fails >= MAX_FAILS
    THEN [fails |-> fails, locked |-> TRUE, locked_until |-> t]
    ELSE [fails |-> fails, locked |-> FALSE, locked_until |-> state.locked_until]

\* register_fail locking one failure late.
register_fail_late(state, t) ==
    LET fails == state.fails + 1 IN
    IF fails > MAX_FAILS
    THEN [fails |-> fails, locked |-> TRUE, locked_until |-> t + LOCKOUT_SECONDS]
    ELSE [fails |-> fails, locked |-> FALSE, locked_until |-> state.locked_until]

\* register_fail after its get_state: what it writes and returns for the
\* state read and the clock value t.
register_fail(state, t) ==
    LET fails == state.fails + 1 IN
    IF fails >= MAX_FAILS
    THEN [fails |-> fails, locked |-> TRUE, locked_until |-> t + LOCKOUT_SECONDS]
    ELSE [fails |-> fails, locked |-> FALSE, locked_until |-> state.locked_until]

\* What register_success writes.
register_success == [fails |-> 0, locked_until |-> 0]

----------------------------------------------------------------------------
(* recognition.py: the probe images and what extraction makes of them *)

\* The images a request can upload.  An image is what the code reads of it:
\* whether cv2.imdecode accepts it, its blur score and mean brightness, the
\* face encodings found in it, and its grey level (in hundredths of full
\* scale), from which motion_heuristic takes the frame difference.
ImageData ==
    [junk     |-> [decodes |-> FALSE, blur |-> 0, brightness |-> 0,
                   encodings |-> << >>, grey |-> 0],
     blurry   |-> [decodes |-> TRUE, blur |-> 10, brightness |-> 128,
                   encodings |-> << <<18, 6, 6, 2, 0>> >>, grey |-> 50],
     crowd    |-> [decodes |-> TRUE, blur |-> 100, brightness |-> 128,
                   encodings |-> << <<18, 6, 6, 2, 0>>, <<2, 18, 6, 6, 0>> >>,
                   grey |-> 50],
     alice_a  |-> [decodes |-> TRUE, blur |-> 100, brightness |-> 128,
                   encodings |-> << <<18, 6, 6, 2, 0>> >>, grey |-> 50],
     alice_b  |-> [decodes |-> TRUE, blur |-> 45, brightness |-> 220,
                   encodings |-> << <<13, 14, 5, 3, 1>> >>, grey |-> 53],
     mallory  |-> [decodes |-> TRUE, blur |-> 100, brightness |-> 40,
                   encodings |-> << <<2, 18, 6, 6, 0>> >>, grey |-> 55]]

Images == DOMAIN ImageData

\* The template stored for alice by her enrollment.
AliceEmbedding == <<20, 0, 0, 0, 0>>

_decode_image_bytes(img) == ImageData[img].decodes

_quality_gate(img) ==
    IF ImageData[img].blur < 45
    THEN [ok |-> FALSE, reason |-> "image_too_blurry"]
    ELSE IF ImageData[img].brightness < 40
    THEN [ok |-> FALSE, reason |-> "image_too_dark"]
    ELSE IF ImageData[img].brightness > 220
    THEN [ok |-> FALSE, reason |-> "image_too_bright"]
    ELSE [ok |-> TRUE, reason |-> "None"]

\* extract_embedding on an image that decodes.
extract_embedding(img) ==
    LET q == _quality_gate(img)
        encodings == ImageData[img].encodings
    IN  IF ~q.ok
        THEN [embedding |-> << >>, face_count |-> 0, quality_ok |-> FALSE,
              quality_reason |-> q.reason]
        ELSE IF Len(encodings) = 0
        THEN [embedding |-> << >>, face_count |-> 0, quality_ok |-> TRUE,
              quality_reason |-> "None"]
        ELSE IF Len(encodings) # 1
        THEN [embedding |-> << >>, face_count |-> Len(encodings),
              quality_ok |-> TRUE, quality_reason |-> "None"]
        ELSE [embedding |-> encodings[1], face_count |-> 1,
              quality_ok |-> TRUE, quality_reason |-> "None"]

RECURSIVE DotFrom(_, _, _)
DotFrom(a, b, i) ==
    IF i > Len(a) THEN 0 ELSE a[i] * b[i] + DotFrom(a, b, i + 1)

Dot(a, b) == DotFrom(a, b, 1)

RECURSIVE SqrtFrom(_, _)
SqrtFrom(x, n) == IF (n + 1) * (n + 1) > x THEN n ELSE SqrtFrom(x, n + 1)

\* np.linalg.norm; the vectors of the model have whole norms.
Norm(a) == SqrtFrom(Dot(a, a), 0)

\* In hundredths.
cosine_distance(a, b) ==
    LET denom == Norm(a) * Norm(b) IN
    IF denom = 0 THEN 100 ELSE 100 - (100 * Dot(a, b)) \div denom

Abs(x) == IF x < 0 THEN -x ELSE x

\* In hundredths: the mean absolute grey difference over full scale.
motion_heuristic(img1, img2) ==
    IF ~ImageData[img1].decodes \/ ~ImageData[img2].decodes
    THEN 0
    ELSE Abs(ImageData[img1].grey - ImageData[img2].grey)

----------------------------------------------------------------------------
(* db.py: users and events; auth.py: the token *)

NoUser == [found |-> FALSE, username |-> "", role |-> "", embedding |-> << >>]

get_user(username) ==
    IF username \in DOMAIN users
    THEN [found |-> TRUE, username |-> username, role |-> users[username].role,
          embedding |-> users[username].embedding]
    ELSE NoUser

\* A column that holds NULL.
SqlNull == "NULL"

\* SQL COALESCE of two values.
Coalesce(a, b) == IF a # SqlNull THEN a ELSE b

\* upsert_user writing the role it is given over the stored one.
upsert_user_overwrite(username, embedding, role) ==
    [n \in DOMAIN users \cup {username} |->
        IF n = username
        THEN [embedding |-> embedding, role |-> role,
              id |-> IF n \in DOMAIN users THEN users[n].id
                     ELSE Cardinality(DOMAIN users) + 1]
        ELSE users[n]]

\* upsert_user, db.py lines 56-67: a new row takes the next id; on a conflict
\* the row keeps its id, takes the new embedding, and its role becomes
\* COALESCE(users.role, excluded.role).
upsert_user(username, embedding, role) ==
    IF username \in DOMAIN users
    THEN [users EXCEPT ![username] =
             [embedding |-> embedding,
              role |-> Coalesce(users[username].role, role),
              id |-> users[username].id]]
    ELSE [n \in DOMAIN users \cup {username} |->
             IF n = username
             THEN [embedding |-> embedding, role |-> role,
                   id |-> Cardinality(DOMAIN users) + 1]
             ELSE users[n]]

\* set_user_role, db.py lines 83-90: the table after the UPDATE, and whether
\* a row was updated.
set_user_role(username, role) ==
    IF username \in DOMAIN users
    THEN [ok |-> TRUE,
          users |-> [users EXCEPT ![username].role = role]]
    ELSE [ok |-> FALSE, users |-> users]

\* list_users, db.py lines 92-105: the rows in the order of the table scan,
\* which is the order of their ids.
list_users ==
    [i \in 1..Cardinality(DOMAIN users) |->
        LET n == CHOOSE m \in DOMAIN users : users[m].id = i IN
        [username |-> n, role |-> users[n].role,
         embedding |-> users[n].embedding]]

\* log_event; the row's ts is left out, no claim reads it.
log_event(event_type, username, ip, meta) ==
    Append(events, [event_type |-> event_type, username |-> username,
                    ip |-> ip, meta |-> meta])

NoToken == [sub |-> "", role |-> "", iat |-> None, exp |-> None]

\* The payload that jwt.encode signs, for the clock value t.
create_access_token(username, role, t) ==
    [sub |-> username, role |-> role, iat |-> t,
     exp |-> t + ACCESS_TOKEN_TTL_SECONDS]

\* The decision taken on the first probe and the motion score alone.
Authenticated_one_probe(d1, d2, motion) ==
    LET match1 == d1 <= MATCH_THRESHOLD
        liveness_pass == motion >= MOTION_THRESHOLD
    IN  match1 /\ liveness_pass

\* app.py verify, lines 119-125.
Authenticated(d1, d2, motion) ==
    LET match1 == d1 <= MATCH_THRESHOLD
        match2 == d2 <= MATCH_THRESHOLD
        liveness_pass == motion >= MOTION_THRESHOLD
    IN  match1 /\ match2 /\ liveness_pass

\* app.py line 17.
ALLOWED_ROLES == {"user", "admin", "analyst"}

\* The Authorization header of a request: none, or a scheme and a token; a
\* token is a payload and the key that signed it.
NoCreds == [scheme |-> "", key |-> "", payload |-> NoToken]

Bearer(key, payload) == [scheme |-> "bearer", key |-> key, payload |-> payload]

\* auth.py line 25: jwt.encode with SECRET_KEY.
jwt_encode(payload) == Bearer("SECRET_KEY", payload)

\* auth.py line 29: jwt.decode (python-jose) at clock value t.  It raises
\* JWTError when the signature was not made with the key and when the token
\* has expired, which python-jose decides by exp < now.
jwt_decode(creds, t) ==
    IF creds.key # "SECRET_KEY" THEN [ok |-> FALSE, payload |-> NoToken]
    ELSE IF creds.payload.exp < t THEN [ok |-> FALSE, payload |-> NoToken]
    ELSE [ok |-> TRUE, payload |-> creds.payload]

\* auth.py lines 27-31: the payload, or HTTP 401.
decode_token(creds, t) ==
    LET r == jwt_decode(creds, t) IN
    IF r.ok THEN [status |-> 200, payload |-> r.payload]
    ELSE [status |-> 401, payload |-> NoToken]

NoCaller == [username |-> "", role |-> ""]

\* auth.py lines 33-41.
get_current_user(creds, t) ==
    IF creds = NoCreds \/ creds.scheme # "bearer"
    THEN [status |-> 401, user |-> NoCaller]
    ELSE LET d == decode_token(creds, t) IN
         IF d.status # 200 THEN [status |-> d.status, user |-> NoCaller]
         ELSE IF d.payload.sub = "" THEN [status |-> 401, user |-> NoCaller]
         ELSE [status |-> 200,
               user |-> [username |-> d.payload.sub, role |-> d.payload.role]]

\* require_role letting every authenticated caller through.
require_role_any(allowed_roles, creds, t) == get_current_user(creds, t)

\* auth.py lines 43-48.
require_role(allowed_roles, creds, t) ==
    LET c == get_current_user(creds, t) IN
    IF c.status # 200 THEN c
    ELSE IF c.user.role \notin allowed_roles
         THEN [status |-> 403, user |-> NoCaller]
         ELSE c

----------------------------------------------------------------------------
(* Processes *)

NoResult == [quality_ok |-> FALSE, quality_reason |-> "", face_count |-> None]

NoCheck == [locked |-> FALSE, fails |-> None, remaining |-> None]

NoFail == [fails |-> None, locked |-> FALSE, locked_until |-> None]

\* The locals of a call before it has run.  A local is put back to its
\* value here once the call no longer reads it.
InitLoc ==
    [op |-> "none", username |-> "", ip |-> "",
     \* security.py
     state |-> DefaultState, t |-> None, cl_ret |-> NoCheck, rf_ret |-> NoFail,
     \* app.py verify
     user_row |-> NoUser, outcome |-> "", r1 |-> NoResult, r2 |-> NoResult,
     d1 |-> None, d2 |-> None, motion |-> None,
     token |-> NoToken, status |-> None,
     \* auth.py get_current_user; app.py search and admin_set_role
     creds |-> NoCreds, user |-> NoCaller, target |-> "", role |-> "",
     image |-> "", top_k |-> None, results |-> << >>]

\* The state after init_db() and the enrollment of user u from a usable
\* image: the template with role user, and the enroll_success event.
Enrolled(u) ==
    /\ users = [n \in {u} |-> [embedding |-> AliceEmbedding, role |-> "user",
                                 id |-> 1]]
    /\ auth_state = << >>
    /\ events = << [event_type |-> "enroll_success", username |-> u,
                    ip |-> "10.0.0.1",
                    meta |-> [note |-> "user embedding stored"]] >>
    /\ now = 0
    /\ pc = [p \in Procs |-> "idle"]
    /\ loc = [p \in Procs |-> InitLoc]
    /\ fresh = [k \in Keys |-> 0]

Init == Enrolled("alice")

Key(p) == _key(loc[p].username, loc[p].ip)

Ready(p) == pc[p] \in {"idle", "done"}

\* A caller begins a call for a username of U and some address.
Begin(p, op, first, U) ==
    /\ Ready(p)
    /\ \E u \in U, ip \in IPs :
          loc' = [loc EXCEPT ![p] = [InitLoc EXCEPT !.op = op, !.username = u,
                                                    !.ip = ip]]
    /\ pc' = [pc EXCEPT ![p] = first]
    /\ UNCHANGED <<users, auth_state, events, now, fresh>>

StartCheck(p, U) == Begin(p, "check_lockout", "cl_get", U)

StartFail(p, U) == Begin(p, "register_fail", "rf_get", U)

StartSuccess(p, U) == Begin(p, "register_success", "rs_set", U)

\* check_lockout, line 17: get_state.
ClGet(p) ==
    /\ pc[p] = "cl_get"
    /\ loc' = [loc EXCEPT ![p].state = get_state(Key(p), DefaultState)]
    /\ pc' = [pc EXCEPT ![p] = "cl_now"]
    /\ UNCHANGED <<users, auth_state, events, now, fresh>>

\* check_lockout, lines 18-23: the clock and the answer.
ClNow(p) ==
    /\ pc[p] = "cl_now"
    /\ loc' = [loc EXCEPT ![p].t = now,
                          ![p].cl_ret = check_lockout(loc[p].state, now),
                          ![p].state = DefaultState]
    /\ pc' = [pc EXCEPT ![p] = IF loc[p].op = "verify" THEN "v_checked" ELSE "cl_ret"]
    /\ UNCHANGED <<users, auth_state, events, now, fresh>>

\* check_lockout called on its own: the answer reaches the caller.
ClRet(p) ==
    /\ pc[p] = "cl_ret"
    /\ pc' = [pc EXCEPT ![p] = "idle"]
    /\ loc' = [loc EXCEPT ![p] = InitLoc]
    /\ UNCHANGED <<users, auth_state, events, now, fresh>>

\* register_fail, line 29: get_state.  Not begun on a key whose stored count
\* has reached the bound of the model.
RfGet(p) ==
    /\ pc[p] = "rf_get"
    /\ get_state(Key(p), DefaultState).fails < MaxStoredFails
    /\ loc' = [loc EXCEPT ![p].state = get_state(Key(p), DefaultState)]
    /\ pc' = [pc EXCEPT ![p] = "rf_now"]
    /\ fresh' = [fresh EXCEPT ![Key(p)] = IF @ < 0 THEN @ ELSE @ + 1]
    /\ UNCHANGED <<users, auth_state, events, now>>

\* register_fail, lines 30-38: the clock, the new count and the lock.
RfNow(p) ==
    /\ pc[p] = "rf_now"
    /\ loc' = [loc EXCEPT ![p].t = now,
                          ![p].rf_ret = register_fail(loc[p].state, now),
                          ![p].state = DefaultState]
    /\ pc' = [pc EXCEPT ![p] = "rf_set"]
    /\ UNCHANGED <<users, auth_state, events, now, fresh>>

\* register_fail, lines 40-41: set_state and return.
RfSet(p) ==
    /\ pc[p] = "rf_set"
    /\ auth_state' = set_state(Key(p), [fails |-> loc[p].rf_ret.fails,
                                        locked_until |-> loc[p].rf_ret.locked_until])
    /\ IF loc[p].op = "verify"
       THEN pc' = [pc EXCEPT ![p] = "v_failed"] /\ loc' = loc
       ELSE pc' = [pc EXCEPT ![p] = "idle"] /\ loc' = [loc EXCEPT ![p] = InitLoc]
    /\ UNCHANGED <<users, events, now, fresh>>

\* register_success without its set_state.
RsSet_skips(p) ==
    /\ pc[p] = "rs_set"
    /\ IF loc[p].op = "verify"
       THEN pc' = [pc EXCEPT ![p] = "v_token"] /\ loc' = loc
       ELSE pc' = [pc EXCEPT ![p] = "idle"] /\ loc' = [loc EXCEPT ![p] = InitLoc]
    /\ fresh' = [fresh EXCEPT ![Key(p)] = -1]
    /\ UNCHANGED <<users, auth_state, events, now>>

\* register_success resetting the count and leaving the lock.
RsSet_keeps_lock(p) ==
    /\ pc[p] = "rs_set"
    /\ auth_state' = set_state(Key(p),
            [fails |-> 0,
             locked_until |-> get_state(Key(p), DefaultState).locked_until])
    /\ IF loc[p].op = "verify"
       THEN pc' = [pc EXCEPT ![p] = "v_token"] /\ loc' = loc
       ELSE pc' = [pc EXCEPT ![p] = "idle"] /\ loc' = [loc EXCEPT ![p] = InitLoc]
    /\ fresh' = [fresh EXCEPT ![Key(p)] = -1]
    /\ UNCHANGED <<users, events, now>>

\* register_success, line 44: set_state.
RsSet(p) ==
    /\ pc[p] = "rs_set"
    /\ auth_state' = set_state(Key(p), register_success)
    /\ IF loc[p].op = "verify"
       THEN pc' = [pc EXCEPT ![p] = "v_token"] /\ loc' = loc
       ELSE pc' = [pc EXCEPT ![p] = "idle"] /\ loc' = [loc EXCEPT ![p] = InitLoc]
    /\ fresh' = [fresh EXCEPT ![Key(p)] = -1]
    /\ UNCHANGED <<users, events, now>>

\* Time passes.
Tick ==
    /\ \E t \in Times : t > now /\ now' = t
    /\ UNCHANGED <<users, auth_state, events, pc, loc, fresh>>

----------------------------------------------------------------------------
(* app.py: POST /verify *)

\* What verify keeps of a FaceResult once the distances are taken.
Flags(r) == [quality_ok |-> r.quality_ok, quality_reason |-> r.quality_reason,
             face_count |-> r.face_count]

\* Lines 127-134.
Meta(l) ==
    [d1 |-> l.d1, d2 |-> l.d2, match_threshold |-> MATCH_THRESHOLD,
     motion |-> l.motion, motion_threshold |-> MOTION_THRESHOLD,
     liveness_pass |-> l.motion >= MOTION_THRESHOLD]

\* Line 143: meta.update with the result of register_fail.
MetaFailed(l, f, locked_now, locked_until) ==
    [d1 |-> l.d1, d2 |-> l.d2, match_threshold |-> MATCH_THRESHOLD,
     motion |-> l.motion, motion_threshold |-> MOTION_THRESHOLD,
     liveness_pass |-> l.motion >= MOTION_THRESHOLD,
     fails |-> f, locked |-> locked_now,
     locked_until |-> IF locked_now THEN locked_until ELSE None]

\* A request arrives, lines 55-63.  cap bounds the rows of the events table.
StartVerify(p, U, cap) ==
    /\ Len(events) < cap
    /\ Begin(p, "verify", "cl_get", U)

\* A locked request that is counted as one more failure.
VLocked_counts(p) ==
    /\ pc[p] = "v_checked"
    /\ loc[p].cl_ret.locked
    /\ events' = log_event("verify_locked", loc[p].username, loc[p].ip,
                           [fails |-> loc[p].cl_ret.fails,
                            seconds_remaining |-> loc[p].cl_ret.remaining])
    /\ auth_state' = set_state(Key(p),
            [fails |-> get_state(Key(p), DefaultState).fails + 1,
             locked_until |-> get_state(Key(p), DefaultState).locked_until])
    /\ loc' = [loc EXCEPT ![p].status = 429]
    /\ pc' = [pc EXCEPT ![p] = "done"]
    /\ UNCHANGED <<users, now, fresh>>

\* Lines 64-66: the key is locked.
VLocked(p) ==
    /\ pc[p] = "v_checked"
    /\ loc[p].cl_ret.locked
    /\ events' = log_event("verify_locked", loc[p].username, loc[p].ip,
                           [fails |-> loc[p].cl_ret.fails,
                            seconds_remaining |-> loc[p].cl_ret.remaining])
    /\ loc' = [loc EXCEPT ![p].status = 429]
    /\ pc' = [pc EXCEPT ![p] = "done"]
    /\ UNCHANGED <<users, auth_state, now, fresh>>

\* Line 68: get_user.
VGetUser(p) ==
    /\ pc[p] = "v_checked"
    /\ ~loc[p].cl_ret.locked
    /\ loc' = [loc EXCEPT ![p].user_row = get_user(loc[p].username)]
    /\ pc' = [pc EXCEPT ![p] = IF get_user(loc[p].username).found
                               THEN "v_extract" ELSE "v_unknown"]
    /\ UNCHANGED <<users, auth_state, events, now, fresh>>

\* Lines 69-71: no such user.
VUnknown(p) ==
    /\ pc[p] = "v_unknown"
    /\ events' = log_event("verify_failed", loc[p].username, loc[p].ip,
                           [reason |-> "unknown_user"])
    /\ loc' = [loc EXCEPT ![p].status = 404]
    /\ pc' = [pc EXCEPT ![p] = "done"]
    /\ UNCHANGED <<users, auth_state, now, fresh>>

\* Lines 73-125: the two images are read and extracted, the gates applied,
\* the distances and the motion score taken, and the decision made.  The
\* images are a pair of Pairs.
VExtract(p, Pairs) ==
    /\ pc[p] = "v_extract"
    /\ \E b \in Pairs :
          IF ~_decode_image_bytes(b[1]) \/ ~_decode_image_bytes(b[2])
          THEN /\ loc' = [loc EXCEPT ![p].outcome = "decode_error"]
               /\ pc' = [pc EXCEPT ![p] = "v_error"]
          ELSE LET r1 == extract_embedding(b[1])
                   r2 == extract_embedding(b[2])
                   enrolled_vec == loc[p].user_row.embedding
               IN  IF ~r1.quality_ok \/ ~r2.quality_ok
                   THEN /\ loc' = [loc EXCEPT ![p].outcome = "quality_gate",
                                              ![p].r1 = Flags(r1),
                                              ![p].r2 = Flags(r2)]
                        /\ pc' = [pc EXCEPT ![p] = "rf_get"]
                   ELSE IF r1.face_count # 1 \/ r2.face_count # 1
                   THEN /\ loc' = [loc EXCEPT ![p].outcome = "invalid_face_count",
                                              ![p].r1 = Flags(r1),
                                              ![p].r2 = Flags(r2)]
                        /\ pc' = [pc EXCEPT ![p] = "rf_get"]
                   ELSE LET d1 == cosine_distance(r1.embedding, enrolled_vec)
                            d2 == cosine_distance(r2.embedding, enrolled_vec)
                            motion == motion_heuristic(b[1], b[2])
                            authenticated == Authenticated(d1, d2, motion)
                        IN  /\ loc' = [loc EXCEPT
                                          ![p].outcome = IF authenticated
                                                         THEN "authenticated"
                                                         ELSE "unauthenticated",
                                          ![p].r1 = Flags(r1), ![p].r2 = Flags(r2),
                                          ![p].d1 = d1, ![p].d2 = d2,
                                          ![p].motion = motion]
                            /\ pc' = [pc EXCEPT ![p] = IF authenticated
                                                       THEN "rs_set" ELSE "rf_get"]
    /\ UNCHANGED <<users, auth_state, events, now, fresh>>

\* A decode error that goes unrecorded.
VError_silent(p) ==
    /\ pc[p] = "v_error"
    /\ loc' = [loc EXCEPT ![p].status = 400]
    /\ pc' = [pc EXCEPT ![p] = "done"]
    /\ UNCHANGED <<users, auth_state, events, now, fresh>>

\* Lines 82-84: an image did not decode.
VError(p) ==
    /\ pc[p] = "v_error"
    /\ events' = log_event("verify_error", loc[p].username, loc[p].ip,
                           [error |-> "Invalid image bytes (decode failed)."])
    /\ loc' = [loc EXCEPT ![p].status = 400]
    /\ pc' = [pc EXCEPT ![p] = "done"]
    /\ UNCHANGED <<users, auth_state, now, fresh>>

\* A rejection that logs the count read by the lockout check.
VFailed_stale(p) ==
    /\ pc[p] = "v_failed"
    /\ LET l == loc[p]
           f == l.cl_ret.fails
           locked_now == l.rf_ret.locked
           locked_until == l.rf_ret.locked_until
       IN  CASE l.outcome = "quality_gate" ->
                  /\ events' = log_event("verify_failed", l.username, l.ip,
                        [reason |-> "quality_gate",
                         quality_1 |-> l.r1.quality_reason,
                         quality_2 |-> l.r2.quality_reason,
                         fails |-> f, locked |-> locked_now])
                  /\ loc' = [loc EXCEPT ![p].status = 400]
             [] l.outcome = "invalid_face_count" ->
                  /\ events' = log_event("verify_failed", l.username, l.ip,
                        [reason |-> "invalid_face_count",
                         face_count_1 |-> l.r1.face_count,
                         face_count_2 |-> l.r2.face_count,
                         fails |-> f, locked |-> locked_now])
                  /\ loc' = [loc EXCEPT ![p].status = 400]
             [] OTHER ->
                  /\ events' = log_event("verify_failed", l.username, l.ip,
                        MetaFailed(l, f, locked_now, locked_until))
                  /\ loc' = [loc EXCEPT ![p].status = 401]
    /\ pc' = [pc EXCEPT ![p] = "done"]
    /\ UNCHANGED <<users, auth_state, now, fresh>>

\* After register_fail: lines 88-99, 103-114 or 143-145.
VFailed(p) ==
    /\ pc[p] = "v_failed"
    /\ LET l == loc[p]
           f == l.rf_ret.fails
           locked_now == l.rf_ret.locked
           locked_until == l.rf_ret.locked_until
       IN  CASE l.outcome = "quality_gate" ->
                  /\ events' = log_event("verify_failed", l.username, l.ip,
                        [reason |-> "quality_gate",
                         quality_1 |-> l.r1.quality_reason,
                         quality_2 |-> l.r2.quality_reason,
                         fails |-> f, locked |-> locked_now])
                  /\ loc' = [loc EXCEPT ![p].status = 400]
             [] l.outcome = "invalid_face_count" ->
                  /\ events' = log_event("verify_failed", l.username, l.ip,
                        [reason |-> "invalid_face_count",
                         face_count_1 |-> l.r1.face_count,
                         face_count_2 |-> l.r2.face_count,
                         fails |-> f, locked |-> locked_now])
                  /\ loc' = [loc EXCEPT ![p].status = 400]
             [] OTHER ->
                  /\ events' = log_event("verify_failed", l.username, l.ip,
                        MetaFailed(l, f, locked_now, locked_until))
                  /\ loc' = [loc EXCEPT ![p].status = 401]
    /\ pc' = [pc EXCEPT ![p] = "done"]
    /\ UNCHANGED <<users, auth_state, now, fresh>>

\* After register_success, line 138: the token.
VToken(p) ==
    /\ pc[p] = "v_token"
    /\ loc' = [loc EXCEPT ![p].token = create_access_token(loc[p].username,
                                                           loc[p].user_row.role, now)]
    /\ pc' = [pc EXCEPT ![p] = "v_success"]
    /\ UNCHANGED <<users, auth_state, events, now, fresh>>

\* Lines 139-140.
VSuccess(p) ==
    /\ pc[p] = "v_success"
    /\ events' = log_event("verify_success", loc[p].username, loc[p].ip,
                           Meta(loc[p]))
    /\ loc' = [loc EXCEPT ![p].status = 200]
    /\ pc' = [pc EXCEPT ![p] = "done"]
    /\ UNCHANGED <<users, auth_state, now, fresh>>

----------------------------------------------------------------------------
(* auth.py: tokens; app.py: GET /me *)

\* The clock values around the expiry of a token issued at a time of Times.
TokenTimes ==
    Times \cup {t + ACCESS_TOKEN_TTL_SECONDS + d : t \in Times, d \in {-1, 0, 1}}

\* Time passes, up to the expiry of tokens and beyond.
TokenTick ==
    /\ \E t \in TokenTimes : t > now /\ now' = t
    /\ UNCHANGED <<users, auth_state, events, pc, loc, fresh>>

\* What a client holding the token tok can send as Authorization: nothing,
\* the token, or the same payload signed with another key.
CredsOf(tok) ==
    {NoCreds} \cup
    (IF tok = NoToken THEN {} ELSE {jwt_encode(tok), Bearer("other", tok)})

\* create_access_token as verify calls it (app.py line 138) for user u with
\* role r: client p holds the token from now on.
Issue(p, U) ==
    /\ Ready(p)
    /\ \E u \in U, r \in ALLOWED_ROLES :
          loc' = [loc EXCEPT ![p] =
                     [InitLoc EXCEPT !.op = "issue", !.username = u, !.t = now,
                                     !.token = create_access_token(u, r, now)]]
    /\ pc' = [pc EXCEPT ![p] = "done"]
    /\ UNCHANGED <<users, auth_state, events, now, fresh>>

\* GET /me, app.py lines 26-28: get_current_user on what client p sends.
Me(p) ==
    /\ Ready(p)
    /\ \E c \in CredsOf(loc[p].token) :
          LET r == get_current_user(c, now) IN
          loc' = [loc EXCEPT ![p] =
                     [InitLoc EXCEPT !.op = "me", !.token = loc[p].token,
                                     !.creds = c, !.t = now,
                                     !.user = r.user, !.status = r.status]]
    /\ pc' = [pc EXCEPT ![p] = "done"]
    /\ UNCHANGED <<users, auth_state, events, now, fresh>>

----------------------------------------------------------------------------
(* app.py: POST /enroll *)

\* Lines 30-52, for a username of U and an image of Imgs.  rows bounds the
\* events table.
Enroll(p, U, Imgs, rows) ==
    /\ Ready(p)
    /\ Len(events) < rows
    /\ \E u \in U, ip \in IPs, img \in Imgs :
          LET l == [InitLoc EXCEPT !.op = "enroll", !.username = u, !.ip = ip,
                                   !.image = img]
              res == extract_embedding(img)
          IN  IF ~_decode_image_bytes(img)
              THEN /\ events' = log_event("enroll_error", u, ip,
                          [error |-> "Invalid image bytes (decode failed)."])
                   /\ loc' = [loc EXCEPT ![p] = [l EXCEPT !.status = 400]]
                   /\ users' = users
              ELSE IF ~res.quality_ok
              THEN /\ events' = log_event("enroll_rejected", u, ip,
                          [reason |-> "quality_gate",
                           detail |-> res.quality_reason])
                   /\ loc' = [loc EXCEPT ![p] = [l EXCEPT !.status = 400]]
                   /\ users' = users
              ELSE IF res.face_count # 1
              THEN /\ events' = log_event("enroll_rejected", u, ip,
                          [reason |-> "invalid_face_count",
                           face_count |-> res.face_count])
                   /\ loc' = [loc EXCEPT ![p] = [l EXCEPT !.status = 400]]
                   /\ users' = users
              ELSE /\ users' = upsert_user(u, res.embedding, "user")
                   /\ events' = log_event("enroll_success", u, ip,
                          [note |-> "user embedding stored"])
                   /\ loc' = [loc EXCEPT ![p] =
                                 [l EXCEPT !.status = 200, !.role = "user"]]
    /\ pc' = [pc EXCEPT ![p] = "done"]
    /\ UNCHANGED <<auth_state, now, fresh>>

----------------------------------------------------------------------------
(* app.py: POST /search *)

\* x put into the list c, which is in order of distance, behind every entry
\* that is not farther than x.
RECURSIVE InsertByDistance(_, _)
InsertByDistance(c, x) ==
    IF c = << >> THEN << x >>
    ELSE IF Head(c).distance <= x.distance
         THEN << Head(c) >> \o InsertByDistance(Tail(c), x)
         ELSE << x >> \o c

\* Line 179: candidates.sort(key=distance), a stable sort.
RECURSIVE SortFrom(_, _, _)
SortFrom(c, i, acc) ==
    IF i > Len(c) THEN acc
    ELSE SortFrom(c, i + 1, InsertByDistance(acc, c[i]))

SortByDistance(c) == SortFrom(c, 1, << >>)

Min(a, b) == IF a <= b THEN a ELSE b

Max(a, b) == IF a >= b THEN a ELSE b

\* A slice c[:n] with n >= 0.
Slice(c, n) == SubSeq(c, 1, Min(n, Len(c)))

\* Lines 173-180: the candidates of every user, sorted and cut.
Candidates(embedding) ==
    LET rows == list_users IN
    [i \in 1..Len(rows) |->
        [username |-> rows[i].username, role |-> rows[i].role,
         distance |-> cosine_distance(embedding, rows[i].embedding)]]

\* The sorted candidates cut at top_k, with no upper limit.
SearchResults_uncapped(embedding, top_k) ==
    Slice(SortByDistance(Candidates(embedding)), Max(1, top_k))

SearchResults(embedding, top_k) ==
    Slice(SortByDistance(Candidates(embedding)), Max(1, Min(top_k, 25)))

\* Lines 147-183, for credentials of Creds, a top_k of TopKs and an image of
\* Imgs.
Search(p, Creds, TopKs, Imgs, rows) ==
    /\ Ready(p)
    /\ Len(events) < rows
    /\ \E c \in Creds, k \in TopKs, ip \in IPs, img \in Imgs :
          LET user == get_current_user(c, now)
              l == [InitLoc EXCEPT !.op = "search", !.ip = ip, !.creds = c,
                                   !.user = user.user, !.top_k = k,
                                   !.image = img, !.t = now]
              r == extract_embedding(img)
          IN  IF user.status # 200
              THEN /\ loc' = [loc EXCEPT ![p] =
                                 [InitLoc EXCEPT !.op = "search", !.creds = c,
                                                 !.status = user.status]]
                   /\ events' = events
              ELSE IF ~_decode_image_bytes(img)
              THEN /\ events' = log_event("search_error", user.user.username,
                          ip, [error |-> "Invalid image bytes (decode failed)."])
                   /\ loc' = [loc EXCEPT ![p] = [l EXCEPT !.status = 400]]
              ELSE IF ~r.quality_ok \/ r.face_count # 1
              THEN /\ loc' = [loc EXCEPT ![p] = [l EXCEPT !.status = 400]]
                   /\ events' = events
              ELSE LET results == SearchResults(r.embedding, k) IN
                   /\ events' = log_event("search_success",
                          user.user.username, ip,
                          [top_k |-> k, returned |-> Len(results)])
                   /\ loc' = [loc EXCEPT ![p] =
                                 [l EXCEPT !.status = 200,
                                           !.results = results]]
    /\ pc' = [pc EXCEPT ![p] = "done"]
    /\ UNCHANGED <<users, auth_state, now, fresh>>

----------------------------------------------------------------------------
(* app.py: POST /admin/set-role *)

\* The role parameters a caller sends.
RoleInputs == {"user", "admin", "analyst", " Admin ", "owner"}

\* Line 193: role.strip().lower(), on the parameters of RoleInputs.
StripLower(role) ==
    CASE role = " Admin " -> "admin"
      [] OTHER -> role

\* Lines 185-202, for credentials of Creds and a target of Targets.
SetRole(p, Creds, Targets, rows) ==
    /\ Ready(p)
    /\ Len(events) < rows
    /\ \E c \in Creds, username \in Targets, role_in \in RoleInputs,
          ip \in IPs :
          LET admin == require_role({"admin"}, c, now)
              l == [InitLoc EXCEPT !.op = "set_role", !.creds = c, !.t = now]
              m == [l EXCEPT !.ip = ip, !.user = admin.user,
                             !.target = username, !.role = role_in]
              role == StripLower(role_in)
              upd == set_user_role(username, role)
          IN  IF admin.status # 200
              THEN /\ loc' = [loc EXCEPT ![p] =
                                 [l EXCEPT !.status = admin.status]]
                   /\ UNCHANGED <<users, events>>
              ELSE IF role \notin ALLOWED_ROLES
              THEN /\ loc' = [loc EXCEPT ![p] = [m EXCEPT !.status = 400]]
                   /\ UNCHANGED <<users, events>>
              ELSE IF ~upd.ok
              THEN /\ loc' = [loc EXCEPT ![p] = [m EXCEPT !.status = 404]]
                   /\ UNCHANGED <<users, events>>
              ELSE /\ users' = upd.users
                   /\ events' = log_event("admin_set_role",
                          admin.user.username, ip,
                          [target |-> username, role |-> role])
                   /\ loc' = [loc EXCEPT ![p] = [m EXCEPT !.status = 200]]
    /\ pc' = [pc EXCEPT ![p] = "done"]
    /\ UNCHANGED <<auth_state, now, fresh>>

----------------------------------------------------------------------------
(* Specifications *)

\* The key callers contend for.
Contended == {"alice"}

\* Every pair of images.
AllPairs == Images \X Images

\* A matching pair with enough motion, a pair that matches nothing, and a
\* pair that does not decode.
ProbePairs == {<<"alice_a", "alice_b">>, <<"mallory", "mallory">>,
               <<"junk", "alice_a">>}

\* The steps of a call into security.py, for a username of U.
LockoutStep(p, U) ==
    \/ StartCheck(p, U)
    \/ StartFail(p, U)
    \/ StartSuccess(p, U)
    \/ ClGet(p)
    \/ ClNow(p)
    \/ ClRet(p)
    \/ RfGet(p)
    \/ RfNow(p)
    \/ RfSet(p)
    \/ RsSet(p)

\* The steps of a verify request.
VerifyStep(p, U, Pairs, cap) ==
    \/ StartVerify(p, U, cap)
    \/ ClGet(p)
    \/ ClNow(p)
    \/ VLocked(p)
    \/ VGetUser(p)
    \/ VUnknown(p)
    \/ VExtract(p, Pairs)
    \/ VError(p)
    \/ RfGet(p)
    \/ RfNow(p)
    \/ RfSet(p)
    \/ VFailed(p)
    \/ RsSet(p)
    \/ VToken(p)
    \/ VSuccess(p)

\* Callers of security.py running concurrently on one key.
Next ==
    \/ \E p \in Procs : LockoutStep(p, Contended)
    \/ Tick

Spec == Init /\ [][Next]_vars

\* Calls into security.py made one after another, on any key.
SeqNext ==
    \/ LockoutStep("w1", Usernames)
    \/ Tick

SeqSpec == Init /\ [][SeqNext]_vars

\* Verify requests served one after another, with any images, among
\* failures registered on the contended key.
VerifyNext ==
    \/ VerifyStep("w1", Usernames, AllPairs, MaxEvents)
    \/ StartFail("w1", Contended)
    \/ Tick

VerifySpec == Init /\ [][VerifyNext]_vars

\* Verify requests served one after another, as many as lock a key and
\* find it locked.
DeepNext ==
    \/ VerifyStep("w1", Usernames, ProbePairs, MaxEventsDeep)
    \/ Tick

DeepSpec == Init /\ [][DeepNext]_vars

\* The same for a user enrolled under the name unknown, among requests that
\* give no username.
AliasInit == Enrolled("unknown")

AliasNext ==
    \/ VerifyStep("w1", AliasNames, ProbePairs, MaxEventsDeep)
    \/ Tick

AliasSpec == AliasInit /\ [][AliasNext]_vars

\* The state after alice's enrollment and MAX_FAILS - 1 verify requests for
\* her, served one after another at time 0 with a probe pair that matches
\* nothing: one failure short of the lock.
NearLockInit ==
    LET u == "alice"
        ip == "10.0.0.1"
        d == cosine_distance(extract_embedding("mallory").embedding, AliceEmbedding)
        l == [d1 |-> d, d2 |-> d,
              motion |-> motion_heuristic("mallory", "mallory")]
    IN  /\ users = [n \in {u} |-> [embedding |-> AliceEmbedding, role |-> "user",
                                 id |-> 1]]
        /\ auth_state = [k \in {_key(u, ip)} |->
                            [fails |-> MAX_FAILS - 1, locked_until |-> 0]]
        /\ events = << [event_type |-> "enroll_success", username |-> u,
                        ip |-> ip,
                        meta |-> [note |-> "user embedding stored"]] >>
                    \o [i \in 1..(MAX_FAILS - 1) |->
                           [event_type |-> "verify_failed", username |-> u,
                            ip |-> ip,
                            meta |-> MetaFailed(l, i, FALSE, None)]]
        /\ now = 0
        /\ pc = [p \in Procs |-> "idle"]
        /\ loc = [p \in Procs |-> InitLoc]
        /\ fresh = [k \in Keys |-> IF k = _key(u, ip) THEN MAX_FAILS - 1 ELSE 0]

\* Verify requests served concurrently, from one failure short of the lock.
RaceNext ==
    \/ \E p \in Procs :
          VerifyStep(p, Usernames, ProbePairs, MAX_FAILS + MaxEventsRace)
    \/ Tick

RaceSpec == NearLockInit /\ [][RaceNext]_vars

\* Tokens issued and validated, as time passes.
TokenNext ==
    \/ Issue("w1", Usernames)
    \/ Me("w1")
    \/ TokenTick

TokenSpec == Init /\ [][TokenNext]_vars

\* The usernames of the search runs: u101, u102, ... in lexical order.
Name(i) == "u" \o ToString(100 + i)

\* The place of a username in lexical order.
NameRank(u) == CHOOSE i \in 1..(MaxUsers + 1) : Name(i) = u

\* The embeddings the usable images give.
Faces == <<extract_embedding("alice_a").embedding,
           extract_embedding("alice_b").embedding,
           extract_embedding("mallory").embedding>>

SearchSizes == {1, 2, 3, 4, MaxUsers}

\* The state after m enrollments of m usernames from usable images, made in
\* lexical order of the usernames or against it.
SearchInit ==
    \E m \in SearchSizes, ascending \in BOOLEAN, shift \in 0..2 :
        LET id(i) == IF ascending THEN i ELSE m + 1 - i IN
        /\ users = [n \in {Name(i) : i \in 1..m} |->
                       [embedding |-> Faces[((NameRank(n) + shift) % 3) + 1],
                        role |-> "user", id |-> id(NameRank(n))]]
        /\ auth_state = << >>
        /\ events = [j \in 1..m |->
                        [event_type |-> "enroll_success",
                         username |-> Name(id(j)), ip |-> "10.0.0.1",
                         meta |-> [note |-> "user embedding stored"]]]
        /\ now = 0
        /\ pc = [p \in Procs |-> "idle"]
        /\ loc = [p \in Procs |-> InitLoc]
        /\ fresh = [k \in Keys |-> 0]

\* What the callers of search send: nothing, a token of alice, or its
\* payload signed with another key.
SearchCreds == CredsOf(create_access_token("alice", "user", 0))

TopKs == {-1, 0, 2, 3, 25, 26}

\* Searches, one after another.
SearchNext ==
    Search("w1", SearchCreds, TopKs, Images,
           Cardinality(DOMAIN users) + MaxSearchOps)

SearchSpec == SearchInit /\ [][SearchNext]_vars

\* The state after the enrollment of alice and of root, and after the
\* operator has made root the first admin in the users table (no request
\* makes an admin while there is none).
AdminInit ==
    /\ users = [n \in {"alice", "root"} |->
                   IF n = "alice"
                   THEN [embedding |-> Faces[1], role |-> "user", id |-> 1]
                   ELSE [embedding |-> Faces[3], role |-> "admin", id |-> 2]]
    /\ auth_state = << >>
    /\ events = [j \in 1..2 |->
                    [event_type |-> "enroll_success",
                     username |-> IF j = 1 THEN "alice" ELSE "root",
                     ip |-> "10.0.0.1",
                     meta |-> [note |-> "user embedding stored"]]]
    /\ now = 0
    /\ pc = [p \in Procs |-> "idle"]
    /\ loc = [p \in Procs |-> InitLoc]
    /\ fresh = [k \in Keys |-> 0]

AdminNames == {"alice", "bob", "root"}

\* What the callers of set-role send: nothing, the token the service issued
\* at time 0 to alice (role user) or to root (role admin), or the payload of
\* root's token signed with another key.
AdminCreds ==
    {NoCreds,
     Bearer("other", create_access_token("root", "admin", 0)),
     jwt_encode(create_access_token("alice", "user", 0)),
     jwt_encode(create_access_token("root", "admin", 0))}

\* The images sent to enroll: a second face for alice, another face, and
\* bytes that do not decode.
AdminImages == {"alice_b", "mallory", "junk"}

\* The instants of the requests: the issue of the tokens, their expiry and
\* the second after it.
AdminTimes == {0, ACCESS_TOKEN_TTL_SECONDS, ACCESS_TOKEN_TTL_SECONDS + 1}

AdminTick ==
    /\ \E t \in AdminTimes : t > now /\ now' = t
    /\ UNCHANGED <<users, auth_state, events, pc, loc, fresh>>

\* Enrollments and role changes, one after another, as time passes.
AdminNext ==
    \/ Enroll("w1", AdminNames, AdminImages, MaxEventsAdmin)
    \/ SetRole("w1", AdminCreds, AdminNames, MaxEventsAdmin)
    \/ AdminTick

AdminSpec == AdminInit /\ [][AdminNext]_vars

----------------------------------------------------------------------------
(* Claims *)

Stored(k) == get_state(k, DefaultState)

\* register_fail calls under way on key k, past their get_state.
Failing(k) == {p \in Procs : pc[p] \in {"rf_now", "rf_set"} /\ Key(p) = k}

\* C1: when N register_fail calls on a fresh key run concurrently, with
\* their reads and writes interleaved in any order, the stored state after
\* all of them have finished has fails = N, and the key is locked exactly
\* when N >= MAX_FAILS.
C1_NoLostUpdate ==
    \A k \in Keys :
        (fresh[k] >= 0 /\ Failing(k) = {}) =>
            /\ Stored(k).fails = fresh[k]
            /\ (Stored(k).locked_until # 0) <=> (fresh[k] >= MAX_FAILS)

\* C2: on a fresh key, with calls made one after another and no
\* register_success in between, the k-th register_fail returns fails = k;
\* for k < 5 it returns locked_now = false and the key stays Clear; the 5th
\* returns locked_now = true with locked_until = now + 60, and a check at
\* that same instant reports locked = true with remaining_seconds = 60.
C2_KthFail ==
    /\ \A p \in Procs :
          pc[p] = "rf_set" =>
              LET k == fresh[Key(p)]
                  r == loc[p].rf_ret
              IN  k >= 0 =>
                    /\ r.fails = k
                    /\ (k < MAX_FAILS) => (~r.locked /\ r.locked_until = 0)
                    /\ (k = MAX_FAILS) =>
                          /\ r.locked
                          /\ r.locked_until = loc[p].t + LOCKOUT_SECONDS
    /\ \A k \in Keys :
          (fresh[k] >= 0 /\ fresh[k] < MAX_FAILS /\ Failing(k) = {}) =>
              Stored(k) = [fails |-> fresh[k], locked_until |-> 0]
    /\ \A p \in Procs :
          (/\ pc[p] = "cl_ret"
           /\ fresh[Key(p)] = MAX_FAILS
           /\ Stored(Key(p)).locked_until = loc[p].t + LOCKOUT_SECONDS) =>
              loc[p].cl_ret = [locked |-> TRUE, fails |-> MAX_FAILS,
                               remaining |-> LOCKOUT_SECONDS]

\* C2's case: a check at the instant of the fifth failure answers locked
\* for 60 seconds.
C2_Witness ==
    \E p \in Procs :
        /\ pc[p] = "cl_ret"
        /\ fresh[Key(p)] = MAX_FAILS
        /\ Stored(Key(p)).locked_until = loc[p].t + LOCKOUT_SECONDS
        /\ loc[p].cl_ret.locked
        /\ loc[p].cl_ret.remaining = LOCKOUT_SECONDS

\* C3: register_success on a key, in any stored state of that key, leaves
\* it with fails = 0 and locked_until = 0, so that a check made right after
\* it returns (locked = false, fails = 0, remaining = 0).
C3_SuccessResets ==
    [][\A p \in Procs :
          (pc[p] = "rs_set" /\ pc'[p] # "rs_set") =>
              /\ Key(p) \in DOMAIN auth_state'
              /\ auth_state'[Key(p)] = [fails |-> 0, locked_until |-> 0]
              /\ check_lockout(auth_state'[Key(p)], now')
                    = [locked |-> FALSE, fails |-> 0, remaining |-> 0]]_vars

\* C3's case: register_success about to write on a key that is locked with
\* its window still running.
C3_Witness ==
    \E p \in Procs :
        /\ pc[p] = "rs_set"
        /\ Stored(Key(p)).fails >= MAX_FAILS
        /\ Stored(Key(p)).locked_until > now

\* C4: for a key with a given locked_until and no mutation in between, a
\* check at time now reports locked = true with remaining_seconds =
\* locked_until - now exactly when locked_until > now; remaining_seconds is
\* strictly smaller at every later time inside the window; and at every time
\* now >= locked_until the check reports locked = false with remaining 0.
C4_Decay ==
    \A p \in Procs :
        pc[p] = "cl_ret" =>
            LET s == Stored(Key(p))
                t == loc[p].t
                r == loc[p].cl_ret
            IN  /\ r.locked <=> (s.locked_until > t)
                /\ r.fails = s.fails
                /\ r.locked => r.remaining = s.locked_until - t
                /\ ~r.locked => r.remaining = 0
                /\ \A u \in Times :
                      /\ (u > t /\ u < s.locked_until) =>
                            /\ check_lockout(s, u).locked
                            /\ check_lockout(s, u).remaining < r.remaining
                      /\ (u >= s.locked_until) =>
                            /\ ~check_lockout(s, u).locked
                            /\ check_lockout(s, u).remaining = 0

\* C4's case: a check inside the window, after part of it has passed.
C4_Witness ==
    \E p \in Procs :
        /\ pc[p] = "cl_ret"
        /\ loc[p].cl_ret.locked
        /\ loc[p].cl_ret.remaining < LOCKOUT_SECONDS
        /\ loc[p].cl_ret.remaining > 0

\* The last row of the events table.
LastEvent == events[Len(events)]

\* A verify request of p takes a step.
VerifyMoves(p) == loc'[p].op = "verify" /\ pc'[p] # pc[p]

\* C5: a Verify request whose lockout check reports the key locked ends
\* with HTTP 429, appends exactly one audit event, of type verify_locked,
\* does no template lookup, extraction, distance or liveness work, issues no
\* token, and leaves the stored fails and locked_until of its key unchanged.
C5_LockedRequest ==
    [][\A p \in Procs :
          VerifyMoves(p) =>
              /\ pc[p] \in {"cl_get", "cl_now"} =>
                    events' = events /\ auth_state' = auth_state
              /\ (pc[p] = "v_checked" /\ loc[p].cl_ret.locked) =>
                    /\ pc'[p] = "done"
                    /\ loc'[p].status = 429
                    /\ events' = Append(events,
                          [event_type |-> "verify_locked",
                           username |-> loc[p].username, ip |-> loc[p].ip,
                           meta |-> [fails |-> loc[p].cl_ret.fails,
                                     seconds_remaining |->
                                         loc[p].cl_ret.remaining]])
                    /\ auth_state' = auth_state
                    /\ Stored(Key(p)).fails = loc[p].cl_ret.fails
                    /\ Stored(Key(p)).locked_until
                          = loc[p].t + loc[p].cl_ret.remaining
                    /\ loc'[p].token = NoToken
                    /\ loc'[p].user_row = NoUser
                    /\ loc'[p].r1 = NoResult /\ loc'[p].r2 = NoResult
                    /\ loc'[p].d1 = None /\ loc'[p].d2 = None
                    /\ loc'[p].motion = None
                    /\ loc'[p].rf_ret = NoFail]_vars

\* C5's case: a request answered 429 on a locked key.
C5_Witness ==
    \E p \in Procs :
        /\ pc[p] = "done"
        /\ loc[p].status = 429
        /\ loc[p].cl_ret.locked
        /\ LastEvent.event_type = "verify_locked"
        /\ Stored(Key(p)).locked_until > loc[p].t

\* C6: with alice enrolled and a fresh key, five Verify calls made one after
\* another with well-formed but mismatching probes: the fifth call reports
\* the lockout, with 60 seconds to wait, and a sixth call within the
\* 60-second window is answered 429 without extraction.
C6_FifthLocks ==
    \A p \in Procs :
        (/\ loc[p].op = "verify"
         /\ loc[p].username = "alice"
         /\ fresh[Key(p)] = MAX_FAILS) =>
            /\ (pc[p] \in {"rf_set", "v_failed", "done"}
                  /\ loc[p].outcome = "unauthenticated") =>
                  /\ loc[p].rf_ret.fails = MAX_FAILS
                  /\ loc[p].rf_ret.locked
                  /\ loc[p].rf_ret.locked_until - loc[p].t = LOCKOUT_SECONDS
            /\ (pc[p] = "done" /\ loc[p].outcome = "unauthenticated") =>
                  /\ loc[p].status = 401
                  /\ LastEvent.event_type = "verify_failed"
                  /\ LastEvent.meta.fails = MAX_FAILS
                  /\ LastEvent.meta.locked
                  /\ LastEvent.meta.locked_until
                        = loc[p].t + LOCKOUT_SECONDS
                  /\ Stored(Key(p)).locked_until = loc[p].t + LOCKOUT_SECONDS
                  /\ loc[p].token = NoToken
            /\ (pc[p] \in {"v_checked", "done"}
                  /\ loc[p].outcome = ""
                  /\ loc[p].t < Stored(Key(p)).locked_until) =>
                  /\ loc[p].cl_ret.locked
                  /\ loc[p].cl_ret.remaining
                        = Stored(Key(p)).locked_until - loc[p].t
                  /\ loc[p].cl_ret.remaining <= LOCKOUT_SECONDS
                  /\ pc[p] = "done" =>
                        /\ loc[p].status = 429
                        /\ loc[p].r1 = NoResult /\ loc[p].r2 = NoResult
                        /\ loc[p].user_row = NoUser

\* C6's case: the sixth call answered 429 inside the window the fifth opened.
C6_Witness ==
    \E p \in Procs :
        /\ pc[p] = "done"
        /\ loc[p].username = "alice"
        /\ fresh[Key(p)] = MAX_FAILS
        /\ loc[p].outcome = ""
        /\ loc[p].status = 429
        /\ loc[p].t < Stored(Key(p)).locked_until
        /\ Len(SelectSeq(events, LAMBDA e : e.event_type = "verify_failed"))
              = MAX_FAILS

\* What the request of p has met: the conditions for a token.
Entitled(l) ==
    /\ ~l.cl_ret.locked
    /\ l.user_row.found
    /\ l.r1.quality_ok /\ l.r1.face_count = 1
    /\ l.r2.quality_ok /\ l.r2.face_count = 1
    /\ l.d1 # None /\ l.d1 <= MATCH_THRESHOLD
    /\ l.d2 # None /\ l.d2 <= MATCH_THRESHOLD
    /\ l.motion # None /\ l.motion >= MOTION_THRESHOLD

\* C7: a Verify request returns a token if and only if the key was not
\* locked at its check, the username is enrolled, both probes pass the
\* quality gate with one face each, d1 and d2 are within the match threshold
\* and the motion score reaches the motion threshold; the token carries the
\* requested username as subject and the role stored for that user.
C7_TokenIff ==
    \A p \in Procs :
        (pc[p] = "done" /\ loc[p].op = "verify") =>
            /\ (loc[p].token # NoToken) <=> Entitled(loc[p])
            /\ (loc[p].status = 200) <=> (loc[p].token # NoToken)
            /\ (loc[p].token # NoToken) =>
                  /\ loc[p].token.sub = loc[p].username
                  /\ loc[p].username \in DOMAIN users
                  /\ loc[p].token.role = users[loc[p].username].role

\* C7's case: a request refused a token because the second probe alone is
\* too far from the template.
C7_Witness ==
    \E p \in Procs :
        /\ pc[p] = "done"
        /\ loc[p].op = "verify"
        /\ loc[p].d1 # None /\ loc[p].d1 <= MATCH_THRESHOLD
        /\ loc[p].d2 > MATCH_THRESHOLD
        /\ loc[p].motion >= MOTION_THRESHOLD
        /\ loc[p].token = NoToken
        /\ loc[p].status = 401

\* C8: when a Verify request is authenticated, whatever the fails count of
\* its key was before (0 to 4), after the request the key has fails = 0 and
\* locked_until = 0, exactly one audit event, of type verify_success, has
\* been appended, and the response carries the token and the user's role.
C8_SuccessPath ==
    [][\A p \in Procs :
          VerifyMoves(p) =>
              /\ pc'[p] # "done" => events' = events
              /\ (pc[p] = "rs_set") =>
                    /\ loc[p].outcome = "authenticated"
                    /\ Key(p) \in DOMAIN auth_state'
                    /\ auth_state'[Key(p)] = [fails |-> 0, locked_until |-> 0]
              /\ (pc[p] = "v_token") =>
                    /\ auth_state' = auth_state
                    /\ loc'[p].token.sub = loc[p].username
                    /\ loc'[p].token.role = users[loc[p].username].role
              /\ (pc'[p] = "done" /\ loc[p].outcome = "authenticated") =>
                    /\ events' = Append(events,
                          [event_type |-> "verify_success",
                           username |-> loc[p].username, ip |-> loc[p].ip,
                           meta |-> Meta(loc[p])])
                    /\ auth_state' = auth_state
                    /\ Stored(Key(p)) = [fails |-> 0, locked_until |-> 0]
                    /\ loc'[p].status = 200
                    /\ loc'[p].token # NoToken
                    /\ loc'[p].token.role = users[loc[p].username].role]_vars

\* C8's case: an authenticated request on a key that had four failures.
C8_Witness ==
    \E p \in Procs :
        /\ pc[p] = "done"
        /\ loc[p].outcome = "authenticated"
        /\ loc[p].cl_ret.fails = MAX_FAILS - 1
        /\ loc[p].status = 200
        /\ Stored(Key(p)) = [fails |-> 0, locked_until |-> 0]

Rejections == {"quality_gate", "invalid_face_count", "unauthenticated"}

\* C9: every Verify request for an enrolled user on an unlocked key that is
\* rejected for a quality-gate violation, a face-count violation or a failed
\* match/liveness decision performs register_fail on its key exactly once
\* (stored fails grows by exactly 1, requests running one at a time), issues
\* no token, and fails with HTTP 400 for quality or face-count violations
\* and HTTP 401 for an unauthenticated result; the audit event it appends
\* carries the updated fails count and lock status.
C9_RejectedCounts ==
    [][\A p \in Procs :
          (VerifyMoves(p) /\ loc'[p].outcome \in Rejections) =>
              /\ loc'[p].user_row.found /\ ~loc'[p].cl_ret.locked
              /\ pc[p] = "v_extract" => pc'[p] = "rf_get"
              /\ pc[p] \in {"v_extract", "rf_get", "rf_now"} =>
                    events' = events /\ auth_state' = auth_state
              /\ pc[p] = "rf_set" =>
                    /\ events' = events
                    /\ pc'[p] = "v_failed"
                    /\ auth_state'[Key(p)].fails = Stored(Key(p)).fails + 1
                    /\ auth_state'[Key(p)].fails = loc[p].cl_ret.fails + 1
              /\ pc[p] = "v_failed" =>
                    /\ pc'[p] = "done"
                    /\ auth_state' = auth_state
                    /\ Len(events') = Len(events) + 1
                    /\ SubSeq(events', 1, Len(events)) = events
                    /\ events'[Len(events')].event_type = "verify_failed"
                    /\ events'[Len(events')].meta.fails = Stored(Key(p)).fails
                    /\ events'[Len(events')].meta.fails
                          = loc[p].cl_ret.fails + 1
                    /\ events'[Len(events')].meta.locked
                          <=> (Stored(Key(p)).locked_until > loc[p].t)
                    /\ loc'[p].token = NoToken
                    /\ loc'[p].status =
                          IF loc[p].outcome = "unauthenticated" THEN 401
                          ELSE 400]_vars

\* C9's case: a request rejected for its face count, counted once.
C9_Witness ==
    \E p \in Procs :
        /\ pc[p] = "done"
        /\ loc[p].outcome = "invalid_face_count"
        /\ loc[p].status = 400
        /\ Stored(Key(p)).fails = loc[p].cl_ret.fails + 1
        /\ LastEvent.meta.fails = Stored(Key(p)).fails

\* C10: a Verify request for a username with no enrolled template fails
\* with HTTP 404 and does not count as a failed attempt: the stored lockout
\* state of its key is the same after the request as before, no
\* register_fail is performed, and no token is issued.
C10_UnknownIs404 ==
    \A p \in Procs :
        (/\ pc[p] = "done"
         /\ loc[p].op = "verify"
         /\ loc[p].username \notin DOMAIN users) =>
            /\ loc[p].status = 404
            /\ loc[p].rf_ret = NoFail
            /\ loc[p].token = NoToken
            /\ Stored(Key(p)).fails = loc[p].cl_ret.fails

\* The audit events a verify request can end with, by its status.
VerifyEventTypes(status) ==
    CASE status = 429 -> {"verify_locked"}
      [] status = 404 -> {"verify_failed"}
      [] status = 401 -> {"verify_failed"}
      [] status = 400 -> {"verify_failed", "verify_error"}
      [] status = 200 -> {"verify_success"}
      [] OTHER -> {}

\* C11: every Verify request, on every path it can end on (locked, unknown
\* identity, decode error, quality-gate failure, face-count failure,
\* unauthenticated, success), appends exactly one audit event before it
\* returns, and no operation removes or changes an event already in the log.
C11_OneEvent ==
    [][/\ Len(events') >= Len(events)
       /\ SubSeq(events', 1, Len(events)) = events
       /\ \A p \in Procs :
             VerifyMoves(p) =>
                 IF pc'[p] = "done"
                 THEN /\ Len(events') = Len(events) + 1
                      /\ events'[Len(events')].username = loc[p].username
                      /\ events'[Len(events')].event_type
                            \in VerifyEventTypes(loc'[p].status)
                 ELSE events' = events]_vars

\* C11's case: a request ended by a decode error, one event added to the one
\* of the enrollment.
C11_Witness ==
    \E p \in Procs :
        /\ pc[p] = "done"
        /\ loc[p].outcome = "decode_error"
        /\ loc[p].status = 400
        /\ Len(events) = 2
        /\ LastEvent.event_type = "verify_error"

\* C12: in every execution, also with calls on the same key running
\* concurrently, the stored fails of a key never decreases and a locked key
\* is not unlocked before locked_until, except by a register_success on that
\* key, which is exactly when fails returns to 0.
C12_NoRollback ==
    [][\A k \in Keys :
          LET s == Stored(k)
              s2 == IF k \in DOMAIN auth_state' THEN auth_state'[k]
                    ELSE DefaultState
          IN  (\/ s2.fails < s.fails
               \/ (s.locked_until > now /\ s2.locked_until < s.locked_until)) =>
                  /\ \E p \in Procs :
                        pc[p] = "rs_set" /\ pc'[p] # "rs_set" /\ Key(p) = k
                  /\ s2 = [fails |-> 0, locked_until |-> 0]]_vars

\* C18: in every reachable state, under any interleaving of check,
\* register_fail and register_success calls, the stored state of every key
\* has fails >= MAX_FAILS if and only if locked_until is not 0; a key with
\* fewer than 5 recorded fails is never locked.
C18_LockedIffFive ==
    \A k \in DOMAIN auth_state :
        /\ (auth_state[k].fails >= MAX_FAILS) <=> (auth_state[k].locked_until # 0)
        /\ (auth_state[k].fails < MAX_FAILS) =>
              ~check_lockout(auth_state[k], now).locked

\* C18's case: a key locked by one caller while another caller is about to
\* write a count below 5 that it computed before.
C18_Witness ==
    \E p \in Procs :
        /\ pc[p] = "rf_set"
        /\ loc[p].rf_ret.fails < MAX_FAILS
        /\ Stored(Key(p)).fails >= MAX_FAILS
        /\ Stored(Key(p)).locked_until > now

\* C20: the end of a lockout window does not reset the fail counter: at
\* every time now >= locked_until with no register_success in between, check
\* reports locked = false with fails unchanged (>= 5), and the next
\* register_fail on the key returns locked_now = true with locked_until =
\* now + 60, so that one failure after the window locks the key again.
C20_Relock ==
    \A p \in Procs :
        /\ (/\ pc[p] = "cl_ret"
            /\ fresh[Key(p)] >= MAX_FAILS
            /\ loc[p].t >= Stored(Key(p)).locked_until) =>
              /\ loc[p].cl_ret = [locked |-> FALSE, fails |-> fresh[Key(p)],
                                  remaining |-> 0]
              /\ Stored(Key(p)).fails = fresh[Key(p)]
        /\ (/\ pc[p] = "rf_set"
            /\ fresh[Key(p)] > MAX_FAILS) =>
              /\ Stored(Key(p)).fails = fresh[Key(p)] - 1
              /\ loc[p].rf_ret = [fails |-> fresh[Key(p)], locked |-> TRUE,
                                  locked_until |-> loc[p].t + LOCKOUT_SECONDS]

\* C20's case: the sixth failure, registered once the window of the fifth
\* is over.
C20_Witness ==
    \E p \in Procs :
        /\ pc[p] = "rf_set"
        /\ fresh[Key(p)] = MAX_FAILS + 1
        /\ Stored(Key(p)).fails = MAX_FAILS
        /\ Stored(Key(p)).locked_until # 0
        /\ Stored(Key(p)).locked_until <= loc[p].t
        /\ loc[p].rf_ret.locked

\* C19: while a key is locked (stored locked_until > now), no Verify
\* request for that key issues a token or clears the lock, also when several
\* Verify requests for the key run concurrently and one of them passed its
\* lockout check before the failure of another locked the key.
C19_LockHolds ==
    [][\A p \in Procs :
          LET k == _key(loc'[p].username, loc'[p].ip) IN
          (VerifyMoves(p) /\ Stored(k).locked_until > now) =>
              /\ k \in DOMAIN auth_state'
              /\ auth_state'[k].locked_until >= Stored(k).locked_until
              /\ loc'[p].token = NoToken]_vars

\* C13: for every username u and role r, a token issued at issued_at with
\* expires_at = issued_at + 3600 validates to subject u and role r at every
\* time issued_at <= now < expires_at, and validation fails with HTTP 401 at
\* every time now >= expires_at, now = expires_at included; validation
\* changes no stored state.
C13_RoundTrip ==
    \A p \in Procs :
        (/\ pc[p] = "done"
         /\ loc[p].op = "me"
         /\ loc[p].creds = jwt_encode(loc[p].token)) =>
            /\ loc[p].token.exp = loc[p].token.iat + ACCESS_TOKEN_TTL_SECONDS
            /\ (loc[p].t < loc[p].token.exp) =>
                  /\ loc[p].status = 200
                  /\ loc[p].user = [username |-> loc[p].token.sub,
                                    role |-> loc[p].token.role]
            /\ (loc[p].t >= loc[p].token.exp) =>
                  /\ loc[p].status = 401
                  /\ loc[p].user = NoCaller
            /\ auth_state = << >>
            /\ Len(events) = 1

\* The searches that returned results.
Searched == {p \in Procs : pc[p] = "done" /\ loc[p].op = "search"
                             /\ loc[p].status = 200}

\* The distance of the probe of p's search to the template of user u.
ProbeDistance(p, u) ==
    cosine_distance(extract_embedding(loc[p].image).embedding,
                    users[u].embedding)

Returned(p) == {loc[p].results[i].username : i \in 1..Len(loc[p].results)}

\* C14: for every top_k (0, negative values and values above 25 included)
\* and every set of M >= 1 enrolled templates, Search returns exactly
\* min(clamp(top_k, 1, 25), M) entries, in non-decreasing order of distance,
\* and no enrolled template left out is nearer than a returned entry.
C14_SearchTopK ==
    \A p \in Searched :
        LET res == loc[p].results
            k == loc[p].top_k
            M == Cardinality(DOMAIN users)
            clamp == IF k < 1 THEN 1 ELSE IF k > 25 THEN 25 ELSE k
        IN  /\ M >= 1
            /\ Len(res) = Min(clamp, M)
            /\ Cardinality(Returned(p)) = Len(res)
            /\ \A i \in 1..Len(res) :
                  /\ res[i].username \in DOMAIN users
                  /\ res[i].distance = ProbeDistance(p, res[i].username)
                  /\ res[i].role = users[res[i].username].role
                  /\ \A j \in i..Len(res) : res[i].distance <= res[j].distance
                  /\ \A u \in DOMAIN users \ Returned(p) :
                        res[i].distance <= ProbeDistance(p, u)

\* C14's case: a search for more than 25 entries among more than 25
\* templates, of which 25 are returned.
C14_Witness ==
    \E p \in Searched :
        /\ loc[p].top_k > 25
        /\ Cardinality(DOMAIN users) = MaxUsers
        /\ Len(loc[p].results) = 25
        /\ DOMAIN users \ Returned(p) # {}

\* C15: when two or more enrolled templates are at the same distance from
\* the Search probe, they appear in the result in lexical order of their
\* usernames, and when the top_k cut falls inside such a tie the lexically
\* smaller usernames are the ones returned, whatever the order of enrollment.
C15_TieOrder ==
    \A p \in Searched :
        LET res == loc[p].results IN
        \A i \in 1..Len(res) :
            /\ \A j \in (i + 1)..Len(res) :
                  res[i].distance = res[j].distance =>
                      NameRank(res[i].username) < NameRank(res[j].username)
            /\ \A u \in DOMAIN users \ Returned(p) :
                  res[i].distance = ProbeDistance(p, u) =>
                      NameRank(res[i].username) < NameRank(u)

\* The credentials that validation accepts at time t: a bearer token signed
\* with the key, naming its subject, and not past its expiry.
TokenAccepted(c, t) ==
    /\ c.scheme = "bearer"
    /\ c.key = "SECRET_KEY"
    /\ c.payload.sub # ""
    /\ c.payload.exp >= t

\* The step is p's set-role request.
SetRoleStep(p) ==
    /\ pc'[p] = "done"
    /\ loc'[p].op = "set_role"
    /\ (loc'[p] # loc[p] \/ events' # events \/ pc[p] # "done")

\* The step is p's enroll request.
EnrollStep(p) ==
    /\ pc'[p] = "done"
    /\ loc'[p].op = "enroll"
    /\ events' # events

\* What p's set-role request answers and changes, where the role it asks for
\* is read as sent (literal) or trimmed and lower-cased.
SetRoleRule(p, literal) ==
    LET l == loc'[p]
        c == l.creds
        role == IF literal THEN l.role ELSE StripLower(l.role)
        expected ==
            IF ~TokenAccepted(c, l.t) THEN 401
            ELSE IF c.payload.role # "admin" THEN 403
            ELSE IF role \notin ALLOWED_ROLES THEN 400
            ELSE IF l.target \notin DOMAIN users THEN 404
            ELSE 200
    IN  /\ l.status = expected
        /\ auth_state' = auth_state
        /\ IF l.status = 200
           THEN /\ users' = [users EXCEPT ![l.target].role = role]
                /\ events' = Append(events,
                      [event_type |-> "admin_set_role",
                       username |-> c.payload.sub, ip |-> l.ip,
                       meta |-> [target |-> l.target, role |-> role]])
           ELSE /\ users' = users
                /\ events' = events

\* A stored role changes only in a set-role request that succeeds for that
\* user.
OnlySetRoleChangesRoles ==
    \A u \in DOMAIN users :
        /\ u \in DOMAIN users'
        /\ users'[u].role # users[u].role =>
              \E p \in Procs : /\ SetRoleStep(p)
                               /\ loc'[p].status = 200
                               /\ loc'[p].target = u

\* C16, as stated: SetRole changes the stored role of the target only when
\* the caller's validated token has role admin, the role sent is one of user,
\* admin and analyst, and the target is enrolled; a caller without a valid
\* token gets 401, a caller who is not admin 403, a role outside the three
\* 400, an unenrolled target 404, and a rejected request changes no role, no
\* lockout state and no audit event.
C16_SetRole_AsSent ==
    [][/\ \A p \in Procs : SetRoleStep(p) => SetRoleRule(p, TRUE)
       /\ OnlySetRoleChangesRoles]_vars

\* C16, amended: the same, where the role is one of user, admin and analyst
\* after the surrounding blanks are trimmed and it is lower-cased, and the
\* role stored is the trimmed, lower-cased one.
C16_SetRole ==
    [][/\ \A p \in Procs : SetRoleStep(p) => SetRoleRule(p, FALSE)
       /\ OnlySetRoleChangesRoles]_vars

\* C16's case: an admin has made alice an admin by sending " Admin ".
C16_Witness ==
    \E p \in Procs :
        /\ pc[p] = "done"
        /\ loc[p].op = "set_role"
        /\ loc[p].status = 200
        /\ loc[p].role = " Admin "
        /\ loc[p].target = "alice"
        /\ loc[p].user.role = "admin"
        /\ users["alice"].role = "admin"
        /\ LastEvent.event_type = "admin_set_role"

\* C17: Enroll of an already enrolled username replaces the stored embedding
\* and keeps the stored role; Enroll of a new username stores role user; no
\* other row changes; and the role of an existing user changes only by a
\* SetRole that succeeds.
C17_EnrollKeepsRole ==
    [][/\ \A p \in Procs :
             EnrollStep(p) =>
                 LET u == loc'[p].username IN
                 IF loc'[p].status = 200
                 THEN /\ DOMAIN users' = DOMAIN users \cup {u}
                      /\ users'[u].embedding =
                            extract_embedding(loc'[p].image).embedding
                      /\ users'[u].role =
                            IF u \in DOMAIN users THEN users[u].role
                            ELSE "user"
                      /\ \A n \in DOMAIN users \ {u} : users'[n] = users[n]
                 ELSE users' = users
       /\ OnlySetRoleChangesRoles]_vars

\* C17's case: alice, made admin or analyst, has enrolled again with another
\* image and still has that role.
C17_Witness ==
    \E p \in Procs :
        /\ pc[p] = "done"
        /\ loc[p].op = "enroll"
        /\ loc[p].status = 200
        /\ loc[p].username = "alice"
        /\ users["alice"].role \in {"admin", "analyst"}
        /\ users["alice"].embedding # Faces[1]
        /\ users["alice"].embedding =
              extract_embedding(loc[p].image).embedding

====
